---- MODULE Spec2Model ----
(***************************************************************************)
(* The cellular-automaton engine of game-of-life-2 (src/src/gameOfLife.ts) *)
(* and the store that drives it (useLifeStore).  Buffers (Uint8Array) are  *)
(* functions over 0..length-1.  The exported functions are operators that  *)
(* follow the loops of the source; an action is one call of a function (or *)
(* one store handler), recorded in `call` with its input in `prevGrid`.    *)
(***************************************************************************)
EXTENDS Integers, Sequences, FiniteSets, TLC

VARIABLES
  \* the dimensions of the buffers (COLS and ROWS in the store)
  cols, rows,
  \* LifeState of useLifeStore
  grid, heat, running, generation, rule, wrapEdges, brushSize, tool, selectedPattern,
  births, deaths,
  \* the last call: its arguments and the grid it was given
  call, prevGrid,
  \* the observer of a run: the snapshot it holds and the generations since
  snapshot, steps,
  \* heat trail of a cell: the number of consecutive updateHeatMap calls in
  \* which it was dead since its heat was maxHeat (-1: its heat was not)
  deadRun,
  \* the buffers allocated so far, and who holds which
  heap,
  \* the animation loop of App: its refs, its effect and the frames requested
  raf,
  \* GameCanvas: its refs and the press in progress
  canvas

settings == <<rule, wrapEdges, brushSize, tool, selectedPattern>>

counters == <<generation, births, deaths>>

vars == <<cols, rows, grid, heat, running, counters, settings, call, prevGrid, snapshot, steps,
          deadRun, heap, raf, canvas>>

(***************************************************************************)
(* Bounds of the model.                                                    *)
(***************************************************************************)
\* SpecStep: every grid with at most MaxCells cells is an input.
MaxCells == 9
\* SpecRun: the largest side of a grid, and the number of steps observed.
RunDim == 8
MaxSteps == 2
\* SpecEdit: the sides of a grid, the number of cells up to which every grid is
\* an input (larger grids start all dead or all live), and the brush sizes.
MaxEditCols == 3
MaxEditRows == 8
MaxEditCells == 8
MaxBrushSize == 7
\* SpecStamp: every grid with at most MaxStampCells cells is an input.
MaxStampCells == 5
\* SpecHeat: the cells of a grid, the small values of maxHeat and decay, and the
\* length of a run of calls in which a cell is dead.
MaxHeatCells == 2
MaxHeatArg == 3
MaxDecay == 2
MaxRun == 4
\* SpecStore: the grid of the store (64 x 40 or 36 x 24 in the source), the
\* generations counted before a clear or a randomize, and the brush sizes.
COLS == 3
ROWS == 1
MaxGen == 1
MaxStoreBrush == 3
\* SpecAlias: the cells of a grid and the buffers allocated in a run.
MaxAliasCells == 2
\* SpecLoop: the frames the browser delivers, the requestAnimationFrame calls,
\* and the frames between two steps of the loop (speedMs over the frame time).
MaxFrames == 4
MaxRequests == 4
SpeedFrames == 1
\* SpecMismatch: the length of a buffer.
MaxLength == 2
MaxHeap == 5

(***************************************************************************)
(* JavaScript arithmetic and typed arrays.                                 *)
(***************************************************************************)
\* a % b of JavaScript for b > 0: the sign of the result is the sign of a.
JsRem(a, b) == IF a >= 0 THEN a % b ELSE 0 - ((0 - a) % b)

Max(a, b) == IF a >= b THEN a ELSE b

\* The value an element of a Uint8Array holds after v is stored in it.
Uint8(v) == v % 256

\* new Uint8Array(n).
Uint8Array(n) == [i \in 0 .. n - 1 |-> 0]

(***************************************************************************)
(* Catalogs.                                                               *)
(***************************************************************************)
PATTERN_OFFSETS ==
  [ glider |-> << <<1, 0>>, <<2, 1>>, <<0, 2>>, <<1, 2>>, <<2, 2>> >>,
    blinker |-> << <<-1, 0>>, <<0, 0>>, <<1, 0>> >>,
    lwss |-> << <<-2, -1>>, <<-1, -1>>, <<0, -1>>, <<1, -1>>, <<-3, 0>>,
                <<1, 0>>, <<1, 1>>, <<-3, 2>>, <<0, 2>> >>,
    rPentomino |-> << <<0, -1>>, <<1, -1>>, <<-1, 0>>, <<0, 0>>, <<0, 1>> >> ]

PatternName == DOMAIN PATTERN_OFFSETS

RulePreset == {"conway", "highlife", "seeds"}

\* born[n] and survive[n] for n = 0..8, as the arrays of booleans.
RULE_TABLES_BornAtZero ==
  [ conway |-> [born |-> [n \in 0 .. 8 |-> n \in {3}], survive |-> [n \in 0 .. 8 |-> n \in {2, 3}]],
    highlife |-> [born |-> [n \in 0 .. 8 |-> n \in {3, 6}], survive |-> [n \in 0 .. 8 |-> n \in {2, 3}]],
    seeds |-> [born |-> [n \in 0 .. 8 |-> n \in {0, 2}], survive |-> [n \in 0 .. 8 |-> FALSE]] ]

RULE_TABLES_ConwayB2 ==
  [ conway |-> [born |-> [n \in 0 .. 8 |-> n \in {2, 3}], survive |-> [n \in 0 .. 8 |-> n \in {2, 3}]],
    highlife |-> [born |-> [n \in 0 .. 8 |-> n \in {3, 6}], survive |-> [n \in 0 .. 8 |-> n \in {2, 3}]],
    seeds |-> [born |-> [n \in 0 .. 8 |-> n \in {2}], survive |-> [n \in 0 .. 8 |-> FALSE]] ]

RULE_TABLES ==
  [ conway |-> [born |-> [n \in 0 .. 8 |-> n \in {3}], survive |-> [n \in 0 .. 8 |-> n \in {2, 3}]],
    highlife |-> [born |-> [n \in 0 .. 8 |-> n \in {3, 6}], survive |-> [n \in 0 .. 8 |-> n \in {2, 3}]],
    seeds |-> [born |-> [n \in 0 .. 8 |-> n \in {2}], survive |-> [n \in 0 .. 8 |-> FALSE]] ]

(***************************************************************************)
(* Grid Model.                                                             *)
(***************************************************************************)
indexOf(x, y, c) == y * c + x

createGrid(c, r) == Uint8Array(c * r)

\* randomizeGrid: every cell is drawn independently, so every binary grid of
\* the size is a possible result.
randomizeGrid(c, r) == [0 .. c * r - 1 -> {0, 1}]

(***************************************************************************)
(* Neighbor Counter.                                                       *)
(***************************************************************************)
\* The two nested loops of getNeighborCount, k = 0..8 in the order of the
\* source: dy = -1..1 outside, dx = -1..1 inside.
RECURSIVE NeighborLoopSelf(_, _, _, _, _, _, _)
NeighborLoopSelf(g, x, y, c, r, wrap, k) ==
  IF k > 8 THEN 0
  ELSE LET dy == (k \div 3) - 1
           dx == (k % 3) - 1
           rest == NeighborLoopSelf(g, x, y, c, r, wrap, k + 1)
       IN IF wrap
          THEN LET nx == JsRem(x + dx + c, c)
                   ny == JsRem(y + dy + r, r)
               IN g[indexOf(nx, ny, c)] + rest
          ELSE LET nx == x + dx
                   ny == y + dy
               IN IF nx < 0 \/ ny < 0 \/ nx >= c \/ ny >= r
                  THEN rest
                  ELSE g[indexOf(nx, ny, c)] + rest

RECURSIVE NeighborLoop(_, _, _, _, _, _, _)
NeighborLoop(g, x, y, c, r, wrap, k) ==
  IF k > 8 THEN 0
  ELSE LET dy == (k \div 3) - 1
           dx == (k % 3) - 1
           rest == NeighborLoop(g, x, y, c, r, wrap, k + 1)
       IN IF dx = 0 /\ dy = 0
          THEN rest
          ELSE IF wrap
               THEN LET nx == JsRem(x + dx + c, c)
                        ny == JsRem(y + dy + r, r)
                    IN g[indexOf(nx, ny, c)] + rest
               ELSE LET nx == x + dx
                        ny == y + dy
                    IN IF nx < 0 \/ ny < 0 \/ nx >= c \/ ny >= r
                       THEN rest
                       ELSE g[indexOf(nx, ny, c)] + rest

\* A count that forgets to skip the offset (0,0).
getNeighborCountSelf(g, x, y, c, r, wrap) == NeighborLoopSelf(g, x, y, c, r, wrap, 0)

getNeighborCount(g, x, y, c, r, wrap) == NeighborLoop(g, x, y, c, r, wrap, 0)

(***************************************************************************)
(* Rule Engine.                                                            *)
(***************************************************************************)
\* A cell that stores its neighbour count when it lives.
NextCellCount(current, idx, neighbors, options) ==
  LET table == RULE_TABLES[options.rule]
      alive == current[idx] = 1
  IN IF alive
     THEN (IF table.survive[neighbors] THEN neighbors ELSE 0)
     ELSE (IF table.born[neighbors] THEN neighbors ELSE 0)

\* An element of a boolean[] as a condition: undefined past the end.
Flag(flags, n) == n \in DOMAIN flags /\ flags[n]

\* The next state of one cell (line 105 of the source).
NextCell(current, idx, neighbors, options) ==
  LET table == RULE_TABLES[options.rule]
      alive == current[idx] = 1
  IN IF alive
     THEN (IF Flag(table.survive, neighbors) THEN 1 ELSE 0)
     ELSE (IF Flag(table.born, neighbors) THEN 1 ELSE 0)

\* An update in place: the counts of later cells see the cells already updated.
RECURSIVE InPlaceLoop(_, _, _, _, _)
InPlaceLoop(buf, c, r, options, k) ==
  IF k >= c * r THEN buf
  ELSE LET x == k % c
           y == k \div c
           idx == indexOf(x, y, c)
           neighbors == getNeighborCount(buf, x, y, c, r, options.wrapEdges)
       IN InPlaceLoop([buf EXCEPT ![idx] = NextCell(buf, idx, neighbors, options)],
                      c, r, options, k + 1)

stepGridInPlace(current, c, r, options) == InPlaceLoop(current, c, r, options, 0)

\* The loops over y and x write every element idx = indexOf(x, y, cols) of the
\* fresh buffer `next` once, from the counts and cells of `current`.
stepGrid(current, c, r, options) ==
  [idx \in DOMAIN createGrid(c, r) |->
     LET x == idx % c
         y == idx \div c
         neighbors == getNeighborCount(current, x, y, c, r, options.wrapEdges)
     IN Uint8(NextCell(current, indexOf(x, y, c), neighbors, options))]

(***************************************************************************)
(* Edit Operations.                                                        *)
(***************************************************************************)
\* number | null: isNull is the null, v the number.
normalizeCoord(value, max, wrap) ==
  IF wrap THEN [isNull |-> FALSE, v |-> JsRem(value + max, max)]
  ELSE IF value < 0 \/ value >= max THEN [isNull |-> TRUE, v |-> 0]
  ELSE [isNull |-> FALSE, v |-> value]

\* The elements applyBrush writes: indexOf(nx, ny, cols) for every offset of
\* the square whose two coordinates are not null.  A write at an index that is
\* not an element of the buffer is ignored.
BrushWrites(c, r, x, y, radius, wrap) ==
  {indexOf(normalizeCoord(x + d[1], c, wrap).v, normalizeCoord(y + d[2], r, wrap).v, c) :
     d \in {e \in (-radius .. radius) \X (-radius .. radius) :
              /\ ~normalizeCoord(x + e[1], c, wrap).isNull
              /\ ~normalizeCoord(y + e[2], r, wrap).isNull}}

\* next is a copy of grid; every write stores the same value.
applyBrush(g, c, r, x, y, size, alive, wrap) ==
  LET radius == Max(0, (size - 1) \div 2)
      written == BrushWrites(c, r, x, y, radius, wrap)
  IN [i \in DOMAIN g |-> IF i \in written THEN Uint8(IF alive THEN 1 ELSE 0) ELSE g[i]]

\* The elements stampPattern writes.
StampWrites(c, r, offsets, cx, cy, wrap) ==
  {indexOf(normalizeCoord(cx + offsets[k][1], c, wrap).v,
           normalizeCoord(cy + offsets[k][2], r, wrap).v, c) :
     k \in {j \in 1 .. Len(offsets) :
              /\ ~normalizeCoord(cx + offsets[j][1], c, wrap).isNull
              /\ ~normalizeCoord(cy + offsets[j][2], r, wrap).isNull}}

\* A stamp that does not pass wrap on: the coordinates are clipped.
stampPatternClipped(g, c, r, name, cx, cy, wrap) ==
  [i \in DOMAIN g |->
     IF i \in StampWrites(c, r, PATTERN_OFFSETS[name], cx, cy, FALSE) THEN 1 ELSE g[i]]

\* A stamp that starts from a fresh buffer instead of a copy of the grid.
stampPatternFresh(g, c, r, name, cx, cy, wrap) ==
  [i \in DOMAIN g |->
     IF i \in StampWrites(c, r, PATTERN_OFFSETS[name], cx, cy, wrap) THEN 1 ELSE 0]

\* next is a copy of grid; every write stores 1.
stampPattern(g, c, r, name, cx, cy, wrap) ==
  LET written == StampWrites(c, r, PATTERN_OFFSETS[name], cx, cy, wrap)
  IN [i \in DOMAIN g |-> IF i \in written THEN Uint8(1) ELSE g[i]]

(***************************************************************************)
(* Heat Tracker and Diff Counter.                                          *)
(***************************************************************************)
\* buf[i] as a condition: an element that is not 0; undefined past the end.
Truthy(buf, i) == i \in DOMAIN buf /\ buf[i] # 0

createHeatFromGrid(g, maxHeat) ==
  [i \in DOMAIN g |-> Uint8(IF Truthy(g, i) THEN maxHeat ELSE 0)]

\* A decay without the floor at 0.
updateHeatMapNoFloor(previous, currentGrid, decay, maxHeat) ==
  [i \in DOMAIN previous |->
     Uint8(IF Truthy(currentGrid, i) THEN maxHeat ELSE previous[i] - decay)]

\* An update that only decays: a live cell keeps the heat it had.
updateHeatMapDecayOnly(previous, currentGrid, decay, maxHeat) ==
  [i \in DOMAIN previous |->
     Uint8(IF Truthy(currentGrid, i) THEN previous[i]
           ELSE IF previous[i] > decay THEN previous[i] - decay ELSE 0)]

updateHeatMap(previous, currentGrid, decay, maxHeat) ==
  [i \in DOMAIN previous |->
     Uint8(IF Truthy(currentGrid, i) THEN maxHeat
           ELSE IF previous[i] > decay THEN previous[i] - decay ELSE 0)]

\* A diff that counts every changed cell as a birth.
countBirthsAndDeathsChanged(previous, current) ==
  [births |-> Cardinality({i \in DOMAIN previous : Truthy(previous, i) # Truthy(current, i)}),
   deaths |-> Cardinality({i \in DOMAIN previous : Truthy(previous, i) /\ ~Truthy(current, i)})]

countBirthsAndDeaths(previous, current) ==
  [births |-> Cardinality({i \in DOMAIN previous : ~Truthy(previous, i) /\ Truthy(current, i)}),
   deaths |-> Cardinality({i \in DOMAIN previous : Truthy(previous, i) /\ ~Truthy(current, i)})]

(***************************************************************************)
(* State.                                                                  *)
(***************************************************************************)
\* No snapshot is held.
None == <<>>

NoCall == [op |-> "none", rule |-> "conway", wrapEdges |-> FALSE, x |-> 0, y |-> 0,
           size |-> 0, alive |-> FALSE, name |-> "glider", decay |-> 0, maxHeat |-> 0,
           outcome |-> "none"]

\* No buffer is tracked, no loop is mounted, no canvas is mounted.
NoHeap == <<>>
NoRaf == <<>>
NoCanvas == <<>>

\* The fields of the store other than the buffers, as create() sets them.
StoreFieldsAtStart ==
  /\ running = FALSE
  /\ generation = 0
  /\ rule = "conway"
  /\ wrapEdges = TRUE
  /\ brushSize = 1
  /\ tool = "draw"
  /\ selectedPattern = "glider"
  /\ births = 0
  /\ deaths = 0

\* The dimensions with at most n cells.
DimsUpTo(n) == {d \in (1 .. n) \X (1 .. n) : d[1] * d[2] <= n}

\* An observer that holds a snapshot counts the generations computed since it
\* was taken, and takes a new one after an edit.
Observing == snapshot # None

(***************************************************************************)
(* Calls of the exported functions.                                        *)
(***************************************************************************)
\* grid = stepGrid(grid, cols, rows, {rule: preset, wrapEdges: wrap})
StepGridCall(preset, wrap) ==
  LET c == [NoCall EXCEPT !.op = "stepGrid", !.rule = preset, !.wrapEdges = wrap]
  IN /\ Observing => steps < MaxSteps
     /\ grid' = stepGrid(grid, cols, rows, [rule |-> preset, wrapEdges |-> wrap])
     /\ prevGrid' = grid
     /\ call' = c
     /\ steps' = IF Observing THEN steps + 1 ELSE steps
     /\ UNCHANGED <<cols, rows, heap, raf, canvas, snapshot, heat, deadRun, running, counters, settings>>

\* grid = applyBrush(grid, cols, rows, x, y, size, alive, wrap)
ApplyBrushCall(x, y, size, alive, wrap) ==
  /\ grid' = applyBrush(grid, cols, rows, x, y, size, alive, wrap)
  /\ prevGrid' = grid
  /\ call' = [NoCall EXCEPT !.op = "applyBrush", !.x = x, !.y = y, !.size = size,
                            !.alive = alive, !.wrapEdges = wrap]
  /\ snapshot' = IF Observing THEN grid' ELSE None
  /\ steps' = 0
  /\ UNCHANGED <<cols, rows, heap, raf, canvas, heat, deadRun, running, counters, settings>>

\* grid = stampPattern(grid, cols, rows, name, cx, cy, wrap)
StampPatternCall(name, cx, cy, wrap) ==
  /\ grid' = stampPattern(grid, cols, rows, name, cx, cy, wrap)
  /\ prevGrid' = grid
  /\ call' = [NoCall EXCEPT !.op = "stampPattern", !.name = name, !.x = cx, !.y = cy,
                            !.wrapEdges = wrap]
  /\ snapshot' = IF Observing THEN grid' ELSE None
  /\ steps' = 0
  /\ UNCHANGED <<cols, rows, heap, raf, canvas, heat, deadRun, running, counters, settings>>

\* heat = createHeatFromGrid(grid, maxHeat)
CreateHeatFromGridCall(maxHeat) ==
  /\ heat' = createHeatFromGrid(grid, maxHeat)
  /\ deadRun' = [i \in DOMAIN heat' |-> IF heat'[i] = maxHeat THEN 0 ELSE -1]
  /\ call' = [call EXCEPT !.op = "createHeatFromGrid", !.maxHeat = maxHeat]
  /\ UNCHANGED <<cols, rows, heap, raf, canvas, grid, prevGrid, snapshot, steps, running, counters, settings>>

\* heat = updateHeatMap(heat, currentGrid, decay, maxHeat), currentGrid being
\* the new grid of the driver.
UpdateHeatMapCall(currentGrid, decay, maxHeat) ==
  /\ \A i \in DOMAIN deadRun : deadRun[i] < MaxRun
  /\ heat' = updateHeatMap(heat, currentGrid, decay, maxHeat)
  /\ grid' = currentGrid
  /\ prevGrid' = grid
  /\ deadRun' = [i \in DOMAIN heat' |->
                   IF ~Truthy(currentGrid, i) /\ deadRun[i] >= 0 THEN deadRun[i] + 1
                   ELSE IF heat'[i] = maxHeat THEN 0 ELSE -1]
  /\ call' = [call EXCEPT !.op = "updateHeatMap", !.decay = decay, !.maxHeat = maxHeat,
                            !.outcome = "returned"]
  /\ UNCHANGED <<cols, rows, heap, raf, canvas, snapshot, steps, running, counters, settings>>

\* diff = countBirthsAndDeaths(grid, current), current being the next grid of
\* the driver.
CountBirthsAndDeathsCall(current) ==
  LET diff == countBirthsAndDeaths(grid, current)
  IN /\ births' = diff.births
     /\ deaths' = diff.deaths
     /\ grid' = current
     /\ call' = [NoCall EXCEPT !.op = "countBirthsAndDeaths", !.outcome = "returned"]
     /\ UNCHANGED <<cols, rows, heap, raf, canvas, heat, running, generation, settings, prevGrid, snapshot,
                    steps, deadRun>>

(***************************************************************************)
(* The same calls with the buffers as objects.  heap.buffers holds every   *)
(* buffer allocated so far, a reference is its position; heap.grid and     *)
(* heap.heat are the references the driver holds, heap.seen the inputs of  *)
(* the calls so far with the contents they had when passed, heap.inputs    *)
(* and heap.result the references of the last call.                        *)
(***************************************************************************)
\* An operation that writes its result into a buffer it was given and returns
\* that buffer.
ReturnedInPlace(buffers, inputs, contents) ==
  [buffers |-> [buffers EXCEPT ![inputs[1]] = contents], ref |-> inputs[1]]

\* `const next = new Uint8Array(...)`, the writes to next, and `return next`:
\* the buffers after the call and the reference returned.
Returned(buffers, inputs, contents) ==
  [buffers |-> Append(buffers, contents), ref |-> Len(buffers) + 1]

Passed(inputs) == {<<inputs[k], heap.buffers[inputs[k]]>> : k \in DOMAIN inputs}

\* The driver replaces its grid by the result of a call on it.
GridCall(op, inputs, contents) ==
  LET out == Returned(heap.buffers, inputs, contents)
  IN /\ Len(heap.buffers) < MaxHeap
     /\ heap' = [buffers |-> out.buffers, grid |-> out.ref, heat |-> heap.heat,
                 seen |-> heap.seen \cup Passed(inputs),
                 inputs |-> {inputs[k] : k \in DOMAIN inputs}, result |-> out.ref]
     /\ grid' = out.buffers[out.ref]
     /\ call' = [NoCall EXCEPT !.op = op]
     /\ UNCHANGED <<cols, rows, raf, canvas, heat, running, counters, settings, prevGrid,
                    snapshot, steps, deadRun>>

\* The driver replaces its heat by the result of a call.
HeatCall(op, inputs, contents) ==
  LET out == Returned(heap.buffers, inputs, contents)
  IN /\ Len(heap.buffers) < MaxHeap
     /\ heap' = [buffers |-> out.buffers, grid |-> heap.grid, heat |-> out.ref,
                 seen |-> heap.seen \cup Passed(inputs),
                 inputs |-> {inputs[k] : k \in DOMAIN inputs}, result |-> out.ref]
     /\ heat' = out.buffers[out.ref]
     /\ call' = [NoCall EXCEPT !.op = op]
     /\ UNCHANGED <<cols, rows, raf, canvas, grid, running, counters, settings, prevGrid,
                    snapshot, steps, deadRun>>

StepGridOnHeap(preset, wrap) ==
  GridCall("stepGrid", <<heap.grid>>,
           stepGrid(heap.buffers[heap.grid], cols, rows, [rule |-> preset, wrapEdges |-> wrap]))

ApplyBrushOnHeap(x, y, size, alive, wrap) ==
  GridCall("applyBrush", <<heap.grid>>,
           applyBrush(heap.buffers[heap.grid], cols, rows, x, y, size, alive, wrap))

StampPatternOnHeap(name, cx, cy, wrap) ==
  GridCall("stampPattern", <<heap.grid>>,
           stampPattern(heap.buffers[heap.grid], cols, rows, name, cx, cy, wrap))

CreateHeatFromGridOnHeap(maxHeat) ==
  HeatCall("createHeatFromGrid", <<heap.grid>>,
           createHeatFromGrid(heap.buffers[heap.grid], maxHeat))

UpdateHeatMapOnHeap(decay, maxHeat) ==
  HeatCall("updateHeatMap", <<heap.heat, heap.grid>>,
           updateHeatMap(heap.buffers[heap.heat], heap.buffers[heap.grid], decay, maxHeat))

(***************************************************************************)
(* Handlers of useLifeStore.  COLS x ROWS are the dimensions; a handler    *)
(* that replaces the buffers leaves its name in `call`.                    *)
(***************************************************************************)
StoreCall(op) == [NoCall EXCEPT !.op = op]

step ==
  LET nextGrid == stepGrid(grid, COLS, ROWS, [rule |-> rule, wrapEdges |-> wrapEdges])
      diff == countBirthsAndDeaths(grid, nextGrid)
  IN /\ generation < MaxGen
     /\ grid' = nextGrid
     /\ heat' = updateHeatMap(heat, nextGrid, 1, 10)
     /\ births' = diff.births
     /\ deaths' = diff.deaths
     /\ generation' = generation + 1
     /\ call' = StoreCall("step")
     /\ UNCHANGED <<cols, rows, heap, canvas, running, settings, prevGrid, snapshot, steps, deadRun>>

\* The Step button.
Step == step /\ UNCHANGED raf

\* A clear that empties the buffers and keeps the counters.
ClearBuffersOnly ==
  /\ grid' = createGrid(COLS, ROWS)
  /\ heat' = createGrid(COLS, ROWS)
  /\ running' = FALSE
  /\ call' = StoreCall("clear")
  /\ UNCHANGED <<cols, rows, heap, raf, canvas, counters, settings, prevGrid, snapshot, steps,
                 deadRun>>

Clear ==
  /\ grid' = createGrid(COLS, ROWS)
  /\ heat' = createGrid(COLS, ROWS)
  /\ generation' = 0
  /\ births' = 0
  /\ deaths' = 0
  /\ running' = FALSE
  /\ call' = StoreCall("clear")
  /\ UNCHANGED <<cols, rows, heap, raf, canvas, settings, prevGrid, snapshot, steps, deadRun>>

Randomize ==
  \E nextGrid \in randomizeGrid(COLS, ROWS) :
     /\ grid' = nextGrid
     /\ heat' = createHeatFromGrid(nextGrid, 10)
     /\ generation' = 0
     /\ births' = 0
     /\ deaths' = 0
     /\ call' = StoreCall("randomize")
     /\ UNCHANGED <<cols, rows, heap, raf, canvas, running, settings, prevGrid, snapshot, steps, deadRun>>

interactAt(x, y) ==
  LET nextGrid ==
        IF tool = "stamp"
        THEN stampPattern(grid, COLS, ROWS, selectedPattern, x, y, wrapEdges)
        ELSE applyBrush(grid, COLS, ROWS, x, y, brushSize, tool = "draw", wrapEdges)
  IN /\ grid' = nextGrid
     /\ heat' = updateHeatMap(heat, nextGrid, 0, 10)
     /\ call' = StoreCall("interactAt")
     /\ UNCHANGED <<cols, rows, heap, raf, running, counters, settings, prevGrid, snapshot, steps, deadRun>>

\* onInteractCell of a canvas whose refs are not tracked.
InteractAt(x, y) == interactAt(x, y) /\ UNCHANGED canvas

PlacePatternInCenter(pattern) ==
  LET cx == COLS \div 2
      cy == ROWS \div 2
      nextGrid == stampPattern(grid, COLS, ROWS, pattern, cx, cy, wrapEdges)
  IN /\ grid' = nextGrid
     /\ heat' = updateHeatMap(heat, nextGrid, 0, 10)
     /\ selectedPattern' = pattern
     /\ call' = StoreCall("placePatternInCenter")
     /\ UNCHANGED <<cols, rows, heap, raf, canvas, running, counters, rule, wrapEdges, brushSize, tool, prevGrid,
                    snapshot, steps, deadRun>>

\* A setter leaves the buffers and the last grid call as they are.
SetterFrame == UNCHANGED <<cols, rows, heap, raf, canvas, grid, heat, counters, prevGrid, call, snapshot, steps, deadRun>>

SetRunning(v) ==
  /\ running' = v
  /\ SetterFrame
  /\ UNCHANGED settings

SetRule(v) ==
  /\ rule' = v
  /\ SetterFrame
  /\ UNCHANGED <<running, wrapEdges, brushSize, tool, selectedPattern>>

SetWrapEdges(v) ==
  /\ wrapEdges' = v
  /\ SetterFrame
  /\ UNCHANGED <<running, rule, brushSize, tool, selectedPattern>>

SetBrushSize(v) ==
  /\ brushSize' = v
  /\ SetterFrame
  /\ UNCHANGED <<running, rule, wrapEdges, tool, selectedPattern>>

SetTool(v) ==
  /\ tool' = v
  /\ SetterFrame
  /\ UNCHANGED <<running, rule, wrapEdges, brushSize, selectedPattern>>

SetPattern(v) ==
  /\ selectedPattern' = v
  /\ SetterFrame
  /\ UNCHANGED <<running, rule, wrapEdges, brushSize, tool>>

(***************************************************************************)
(* The animation loop of App.  raf.rendered is the `running` the last       *)
(* render read from the store, the one the closure `loop` of that render   *)
(* and the handlers of its buttons hold; raf.cleanup tells that the last    *)
(* effect returned a clean-up; raf.pending holds the requested frames that *)
(* are neither delivered nor cancelled, each with the `running` of the     *)
(* closure it will call; raf.now is the time of the last frame.            *)
(***************************************************************************)
RafAtMount ==
  [rafRef |-> 0, lastTickRef |-> 0, pending |-> {}, rendered |-> FALSE, cleanup |-> FALSE,
   nextId |-> 1, now |-> 0]

cancelAnimationFrame(pending, id) == {f \in pending : f.id # id}

\* Everything but raf.
StoreAndCanvas ==
  <<cols, rows, heap, canvas, grid, heat, running, counters, settings, call, prevGrid, snapshot,
    steps, deadRun>>

\* The render after a change of `running`, and the effect of [running, loop]:
\* the clean-up of the effect before, then the body.
UseEffect ==
  /\ raf # NoRaf
  /\ running # raf.rendered
  /\ LET cleaned == IF raf.cleanup /\ raf.rafRef # 0
                    THEN cancelAnimationFrame(raf.pending, raf.rafRef) ELSE raf.pending
     IN IF running
        THEN /\ raf.nextId <= MaxRequests
             /\ raf' = [raf EXCEPT !.pending = cleaned \cup {[id |-> raf.nextId, running |-> TRUE]},
                                   !.rafRef = raf.nextId, !.nextId = @ + 1,
                                   !.rendered = TRUE, !.cleanup = TRUE]
        ELSE raf' = [raf EXCEPT !.pending = IF raf.rafRef # 0
                                            THEN cancelAnimationFrame(cleaned, raf.rafRef)
                                            ELSE cleaned,
                                !.lastTickRef = 0, !.rendered = FALSE, !.cleanup = FALSE]
  /\ UNCHANGED StoreAndCanvas

\* The browser delivers the frame f: loop(ts) of the closure that requested it.
Loop(f) ==
  LET ts == raf.now + 1
      lastTick == IF raf.lastTickRef = 0 THEN ts ELSE raf.lastTickRef
      due == ts - lastTick >= SpeedFrames
      delivered == [raf EXCEPT !.pending = @ \ {f}, !.now = ts]
  IN /\ raf # NoRaf
     /\ f \in raf.pending
     /\ ts <= MaxFrames
     /\ IF ~f.running
        THEN raf' = delivered /\ UNCHANGED StoreAndCanvas
        ELSE /\ raf.nextId <= MaxRequests
             /\ IF due THEN step ELSE UNCHANGED StoreAndCanvas
             /\ raf' = [delivered EXCEPT
                          !.lastTickRef = IF due THEN ts ELSE lastTick,
                          !.pending = @ \cup {[id |-> raf.nextId, running |-> f.running]},
                          !.rafRef = raf.nextId, !.nextId = @ + 1]

\* The Start / Pause button of the last render.
ToggleRunning == raf # NoRaf /\ SetRunning(~raf.rendered)

\* The Step button of the last render, disabled while it shows running.
StepButton == raf # NoRaf /\ ~raf.rendered /\ Step

(***************************************************************************)
(* The pointer handlers of GameCanvas.  canvas.isDrawingRef and            *)
(* canvas.lastPaintedRef are its refs.  The rest is the press as the user  *)
(* sees it: pressed (the primary pointer is down), drag (it went down      *)
(* while dragEnabled was true and no up, cancel or leave came since), cell *)
(* (the cell of the last onInteractCell of this press) and invokedBy (the  *)
(* handler of the last event, if it invoked onInteractCell).               *)
(***************************************************************************)
CanvasAtMount ==
  [isDrawingRef |-> FALSE, lastPaintedRef |-> None, pressed |-> FALSE, drag |-> FALSE,
   cell |-> None, invokedBy |-> "none"]

\* The prop App passes to GameCanvas.
dragEnabled == tool # "stamp"

\* Everything but canvas.
StoreAndRaf ==
  <<cols, rows, heap, raf, grid, heat, running, counters, settings, call, prevGrid, snapshot,
    steps, deadRun>>

\* interactIfNeeded(x, y) in the handler `by`, on the canvas c the handler
\* leaves otherwise.
interactIfNeeded(x, y, c, by) ==
  IF canvas.lastPaintedRef = <<x, y>>
  THEN /\ canvas' = [c EXCEPT !.invokedBy = "none"]
       /\ UNCHANGED StoreAndRaf
  ELSE /\ interactAt(x, y)
       /\ canvas' = [c EXCEPT !.lastPaintedRef = <<x, y>>, !.cell = <<x, y>>, !.invokedBy = by]

OnPointerDown(isPrimary, x, y) ==
  /\ canvas # NoCanvas
  /\ isPrimary => ~canvas.pressed
  /\ IF ~isPrimary THEN UNCHANGED vars
     ELSE interactIfNeeded(x, y,
            [canvas EXCEPT !.isDrawingRef = IF dragEnabled THEN TRUE ELSE @,
                           !.pressed = TRUE, !.drag = dragEnabled, !.cell = None],
            "down")

OnPointerMove(isPrimary, x, y) ==
  /\ canvas # NoCanvas
  /\ IF ~isPrimary THEN UNCHANGED vars
     ELSE IF ~canvas.isDrawingRef
     THEN canvas' = [canvas EXCEPT !.invokedBy = "none"] /\ UNCHANGED StoreAndRaf
     ELSE interactIfNeeded(x, y, canvas, "move")

OnPointerUp(isPrimary) ==
  /\ canvas # NoCanvas
  /\ isPrimary => canvas.pressed
  /\ IF ~isPrimary THEN UNCHANGED vars
     ELSE /\ canvas' = [canvas EXCEPT !.isDrawingRef = FALSE, !.lastPaintedRef = None,
                                      !.pressed = FALSE, !.drag = FALSE, !.invokedBy = "none"]
          /\ UNCHANGED StoreAndRaf

\* onPointerCancel, of the primary pointer or of another.
OnPointerCancel(isPrimary) ==
  /\ canvas # NoCanvas
  /\ canvas' = [canvas EXCEPT !.isDrawingRef = FALSE, !.lastPaintedRef = None,
                              !.pressed = IF isPrimary THEN FALSE ELSE @,
                              !.drag = FALSE, !.invokedBy = "none"]
  /\ UNCHANGED StoreAndRaf

\* onPointerLeave, of any pointer; the press goes on.
OnPointerLeave ==
  /\ canvas # NoCanvas
  /\ canvas' = [canvas EXCEPT !.isDrawingRef = FALSE, !.lastPaintedRef = None,
                              !.drag = FALSE, !.invokedBy = "none"]
  /\ UNCHANGED StoreAndRaf

(***************************************************************************)
(* SpecStep: stepGrid on every small grid, any number of times.            *)
(***************************************************************************)
InitStep ==
  /\ \E d \in DimsUpTo(MaxCells) : cols = d[1] /\ rows = d[2]
  /\ grid \in randomizeGrid(cols, rows)
  /\ prevGrid = grid
  /\ call = NoCall
  /\ StoreFieldsAtStart
  /\ heat = createGrid(cols, rows)
  /\ deadRun = [i \in DOMAIN grid |-> -1]
  /\ heap = NoHeap
  /\ raf = NoRaf
  /\ canvas = NoCanvas
  /\ snapshot = None
  /\ steps = 0

\* One call on the inputs drawn by InitStep.
NextStep ==
  /\ call.op = "none"
  /\ \E preset \in RulePreset, wrap \in BOOLEAN : StepGridCall(preset, wrap)

SpecStep == InitStep /\ [][NextStep]_vars

(***************************************************************************)
(* SpecRun: generations observed from a snapshot.  A run starts from the   *)
(* empty grid of any size and steps under any rule and edge policy, or it  *)
(* stamps a blinker on the RunDim x RunDim grid and steps under conway     *)
(* with wrap.                                                              *)
(***************************************************************************)
AllDead(g) == \A i \in DOMAIN g : g[i] = 0

InitRun ==
  /\ cols \in 1 .. RunDim
  /\ rows \in 1 .. RunDim
  /\ grid = createGrid(cols, rows)
  /\ prevGrid = grid
  /\ call = NoCall
  /\ StoreFieldsAtStart
  /\ heat = createGrid(cols, rows)
  /\ deadRun = [i \in DOMAIN grid |-> -1]
  /\ heap = NoHeap
  /\ raf = NoRaf
  /\ canvas = NoCanvas
  /\ snapshot = grid
  /\ steps = 0

NextRun ==
  \/ /\ AllDead(snapshot)
     /\ \E preset \in RulePreset, wrap \in BOOLEAN : StepGridCall(preset, wrap)
  \/ /\ call.op = "none"
     /\ cols = RunDim /\ rows = RunDim
     /\ \E cx \in 0 .. cols - 1, cy \in 0 .. rows - 1 : StampPatternCall("blinker", cx, cy, TRUE)
  \/ /\ ~AllDead(snapshot)
     /\ StepGridCall("conway", TRUE)

SpecRun == InitRun /\ [][NextRun]_vars

(***************************************************************************)
(* SpecEdit: one applyBrush or stampPattern call on a grid.                *)
(***************************************************************************)
BrushSizes == {s \in 1 .. MaxBrushSize : s % 2 = 1}

InitEdit ==
  /\ cols \in 1 .. MaxEditCols
  /\ rows \in 1 .. MaxEditRows
  /\ IF cols * rows <= MaxEditCells
     THEN grid \in randomizeGrid(cols, rows)
     ELSE grid \in {createGrid(cols, rows), [i \in 0 .. cols * rows - 1 |-> 1]}
  /\ prevGrid = grid
  /\ call = NoCall
  /\ StoreFieldsAtStart
  /\ heat = createGrid(cols, rows)
  /\ deadRun = [i \in DOMAIN grid |-> -1]
  /\ heap = NoHeap
  /\ raf = NoRaf
  /\ canvas = NoCanvas
  /\ snapshot = None
  /\ steps = 0

NextEdit ==
  /\ call.op = "none"
  /\ \/ \E x \in 0 .. cols - 1, y \in 0 .. rows - 1, size \in BrushSizes,
           alive \in BOOLEAN, wrap \in BOOLEAN :
          ApplyBrushCall(x, y, size, alive, wrap)
     \/ \E name \in PatternName, cx \in 0 .. cols - 1, cy \in 0 .. rows - 1,
           wrap \in BOOLEAN :
          StampPatternCall(name, cx, cy, wrap)

SpecEdit == InitEdit /\ [][NextEdit]_vars

(***************************************************************************)
(* SpecStamp: any sequence of stamps on a small grid.                      *)
(***************************************************************************)
InitStamp ==
  /\ \E d \in DimsUpTo(MaxStampCells) : cols = d[1] /\ rows = d[2]
  /\ grid \in randomizeGrid(cols, rows)
  /\ prevGrid = grid
  /\ call = NoCall
  /\ StoreFieldsAtStart
  /\ heat = createGrid(cols, rows)
  /\ deadRun = [i \in DOMAIN grid |-> -1]
  /\ heap = NoHeap
  /\ raf = NoRaf
  /\ canvas = NoCanvas
  /\ snapshot = None
  /\ steps = 0

NextStamp ==
  \E name \in PatternName, cx \in 0 .. cols - 1, cy \in 0 .. rows - 1, wrap \in BOOLEAN :
     StampPatternCall(name, cx, cy, wrap)

SpecStamp == InitStamp /\ [][NextStamp]_vars

(***************************************************************************)
(* SpecHeat: a heat buffer made from a grid and updated for any sequence   *)
(* of grids, with the maxHeat and the decay the driver passes every time.  *)
(***************************************************************************)
HeatLimits == (1 .. MaxHeatArg) \cup {255, 256, 300}

InitHeat ==
  /\ \E d \in DimsUpTo(MaxHeatCells) : cols = d[1] /\ rows = d[2]
  /\ grid \in randomizeGrid(cols, rows)
  /\ prevGrid = grid
  /\ \E m \in HeatLimits, d \in 1 .. MaxDecay : call = [NoCall EXCEPT !.maxHeat = m, !.decay = d]
  /\ StoreFieldsAtStart
  /\ heat = createGrid(cols, rows)
  /\ deadRun = [i \in DOMAIN grid |-> -1]
  /\ heap = NoHeap
  /\ raf = NoRaf
  /\ canvas = NoCanvas
  /\ snapshot = None
  /\ steps = 0

NextHeat ==
  \/ CreateHeatFromGridCall(call.maxHeat)
  \/ \E g \in randomizeGrid(cols, rows) : UpdateHeatMapCall(g, call.decay, call.maxHeat)

SpecHeat == InitHeat /\ [][NextHeat]_vars

(***************************************************************************)
(* SpecStore: the store from its initial state, under any sequence of its  *)
(* handlers.                                                               *)
(***************************************************************************)
ToolMode == {"draw", "erase", "stamp"}

StoreBrushSizes == {n \in 1 .. MaxStoreBrush : n % 2 = 1}

InitStore ==
  /\ cols = COLS
  /\ rows = ROWS
  /\ grid = createGrid(COLS, ROWS)
  /\ heat = createGrid(COLS, ROWS)
  /\ StoreFieldsAtStart
  /\ prevGrid = grid
  /\ call = NoCall
  /\ snapshot = None
  /\ steps = 0
  /\ deadRun = [i \in DOMAIN grid |-> -1]
  /\ heap = NoHeap
  /\ raf = NoRaf
  /\ canvas = NoCanvas

NextStore ==
  \/ Step
  \/ Clear
  \/ Randomize
  \/ \E x \in 0 .. COLS - 1, y \in 0 .. ROWS - 1 : InteractAt(x, y)
  \/ \E pattern \in PatternName : PlacePatternInCenter(pattern)
  \/ \E v \in BOOLEAN : SetRunning(v)
  \/ \E v \in RulePreset : SetRule(v)
  \/ \E v \in BOOLEAN : SetWrapEdges(v)
  \/ \E v \in StoreBrushSizes : SetBrushSize(v)
  \/ \E v \in ToolMode : SetTool(v)
  \/ \E v \in PatternName : SetPattern(v)

SpecStore == InitStore /\ [][NextStore]_vars

(***************************************************************************)
(* SpecDiff: countBirthsAndDeaths on every pair of grids, and in the step   *)
(* of the store.                                                           *)
(***************************************************************************)
NextDiff ==
  \/ \E current \in randomizeGrid(cols, rows) : CountBirthsAndDeathsCall(current)
  \/ Step
  \/ Randomize
  \/ \E v \in RulePreset : SetRule(v)
  \/ \E v \in BOOLEAN : SetWrapEdges(v)

SpecDiff == InitStore /\ [][NextDiff]_vars

(***************************************************************************)
(* SpecAlias: any sequence of calls of the five operations on buffers with *)
(* an identity.                                                            *)
(***************************************************************************)
InitAlias ==
  /\ \E d \in DimsUpTo(MaxAliasCells) : cols = d[1] /\ rows = d[2]
  /\ grid \in randomizeGrid(cols, rows)
  /\ heat = createGrid(cols, rows)
  /\ heap = [buffers |-> <<grid, heat>>, grid |-> 1, heat |-> 2, seen |-> {},
             inputs |-> {}, result |-> 0]
  /\ raf = NoRaf
  /\ canvas = NoCanvas
  /\ prevGrid = grid
  /\ call = NoCall
  /\ StoreFieldsAtStart
  /\ deadRun = [i \in DOMAIN grid |-> -1]
  /\ snapshot = None
  /\ steps = 0

NextAlias ==
  \/ \E preset \in RulePreset, wrap \in BOOLEAN : StepGridOnHeap(preset, wrap)
  \/ \E x \in 0 .. cols - 1, y \in 0 .. rows - 1, alive \in BOOLEAN, wrap \in BOOLEAN :
        ApplyBrushOnHeap(x, y, 1, alive, wrap)
  \/ \E name \in PatternName, x \in 0 .. cols - 1, y \in 0 .. rows - 1, wrap \in BOOLEAN :
        StampPatternOnHeap(name, x, y, wrap)
  \/ \E maxHeat \in {1, 10} : CreateHeatFromGridOnHeap(maxHeat)
  \/ \E decay \in {0, 1}, maxHeat \in {1, 10} : UpdateHeatMapOnHeap(decay, maxHeat)

SpecAlias == InitAlias /\ [][NextAlias]_vars

(***************************************************************************)
(* SpecMismatch: updateHeatMap and countBirthsAndDeaths on buffers of any   *)
(* two lengths.                                                            *)
(***************************************************************************)
Buffers == UNION {randomizeGrid(n, 1) : n \in 1 .. MaxLength}

InitMismatch ==
  /\ cols \in 1 .. MaxLength
  /\ rows = 1
  /\ grid \in randomizeGrid(cols, rows)
  /\ heat = createGrid(cols, rows)
  /\ StoreFieldsAtStart
  /\ prevGrid = grid
  /\ call = NoCall
  /\ snapshot = None
  /\ steps = 0
  /\ deadRun = [i \in DOMAIN grid |-> -1]
  /\ heap = NoHeap
  /\ raf = NoRaf
  /\ canvas = NoCanvas

NextMismatch ==
  \/ \E g \in Buffers : UpdateHeatMapCall(g, 1, 10)
  \/ \E g \in Buffers : CountBirthsAndDeathsCall(g)
  \/ CreateHeatFromGridCall(10)

SpecMismatch == InitMismatch /\ [][NextMismatch]_vars

(***************************************************************************)
(* SpecLoop: the mounted App: its buttons, its effect and the frames of    *)
(* the browser, in any order.                                              *)
(***************************************************************************)
InitLoop ==
  /\ cols = COLS
  /\ rows = ROWS
  /\ grid = createGrid(COLS, ROWS)
  /\ heat = createGrid(COLS, ROWS)
  /\ StoreFieldsAtStart
  /\ prevGrid = grid
  /\ call = NoCall
  /\ snapshot = None
  /\ steps = 0
  /\ deadRun = [i \in DOMAIN grid |-> -1]
  /\ heap = NoHeap
  /\ raf = RafAtMount
  /\ canvas = NoCanvas

NextLoop ==
  \/ ToggleRunning
  \/ StepButton
  \/ Clear
  \/ Randomize
  \/ UseEffect
  \/ \E f \in raf.pending : Loop(f)

SpecLoop == InitLoop /\ [][NextLoop]_vars

(***************************************************************************)
(* SpecPointer: the mounted canvas under any order of pointer events and   *)
(* changes of the tool.                                                    *)
(***************************************************************************)
InitPointer ==
  /\ cols = COLS
  /\ rows = ROWS
  /\ grid = createGrid(COLS, ROWS)
  /\ heat = createGrid(COLS, ROWS)
  /\ StoreFieldsAtStart
  /\ prevGrid = grid
  /\ call = NoCall
  /\ snapshot = None
  /\ steps = 0
  /\ deadRun = [i \in DOMAIN grid |-> -1]
  /\ heap = NoHeap
  /\ raf = NoRaf
  /\ canvas = CanvasAtMount

NextPointer ==
  \/ \E isPrimary \in BOOLEAN, x \in 0 .. COLS - 1, y \in 0 .. ROWS - 1 :
        OnPointerDown(isPrimary, x, y)
  \/ \E isPrimary \in BOOLEAN, x \in 0 .. COLS - 1, y \in 0 .. ROWS - 1 :
        OnPointerMove(isPrimary, x, y)
  \/ \E isPrimary \in BOOLEAN : OnPointerUp(isPrimary)
  \/ \E isPrimary \in BOOLEAN : OnPointerCancel(isPrimary)
  \/ OnPointerLeave
  \/ \E v \in ToolMode : SetTool(v)

SpecPointer == InitPointer /\ [][NextPointer]_vars

(***************************************************************************)
(* What the claims speak of.                                               *)
(***************************************************************************)
Offsets == {d \in (-1 .. 1) \X (-1 .. 1) : d # <<0, 0>>}

\* The number of the 8 Moore offsets of (x,y) whose cell is live in g: under
\* wrap the offset is taken modulo (c, r), under the bounded policy an offset
\* outside the grid has no cell.
LiveNeighbours(g, x, y, c, r, wrap) ==
  Cardinality({d \in Offsets :
     LET nx == x + d[1]
         ny == y + d[2]
     IN IF wrap
        THEN g[(ny % r) * c + (nx % c)] = 1
        ELSE nx \in 0 .. c - 1 /\ ny \in 0 .. r - 1 /\ g[ny * c + nx] = 1})

SetCell(g, i, v) == [g EXCEPT ![i] = v]

IsGrid(g, c, r) == DOMAIN g = 0 .. c * r - 1 /\ \A i \in DOMAIN g : g[i] \in {0, 1}

Stepped == call.op = "stepGrid"

\* C1: stepGrid is a synchronous whole-grid update: the result cell is 1 exactly
\* when (the input cell is 1 and survive[n]) or (the input cell is 0 and born[n]),
\* n being the live-neighbour count of the cell in the unmodified input grid.
C1_StepIsSynchronous ==
  Stepped =>
    /\ IsGrid(grid, cols, rows)
    /\ \A x \in 0 .. cols - 1, y \in 0 .. rows - 1 :
         LET i == y * cols + x
             n == LiveNeighbours(prevGrid, x, y, cols, rows, call.wrapEdges)
             table == RULE_TABLES[call.rule]
         IN (grid[i] = 1) <=> \/ (prevGrid[i] = 1 /\ table.survive[n])
                              \/ (prevGrid[i] = 0 /\ table.born[n])

\* A step whose result an update in place would not have produced.
C1_Witness ==
  /\ Stepped
  /\ cols = 3 /\ rows = 3
  /\ grid # stepGridInPlace(prevGrid, cols, rows, call)
  /\ \E i \in DOMAIN grid : prevGrid[i] = 0 /\ grid[i] = 1
  /\ \E i \in DOMAIN grid : prevGrid[i] = 1 /\ grid[i] = 0

\* The cell (x,y) is not counted among its own neighbours: its count does not
\* depend on its own state.
SelfExcluded(g, x, y, wrap) ==
  getNeighborCount(SetCell(g, y * cols + x, 0), x, y, cols, rows, wrap)
    = getNeighborCount(SetCell(g, y * cols + x, 1), x, y, cols, rows, wrap)

\* How much a live cell at (N-1,N-1) adds to the count of (0,0).
FarCorner == (rows - 1) * cols + (cols - 1)

CornerShare(g, wrap) ==
  getNeighborCount(SetCell(g, FarCorner, 1), 0, 0, cols, rows, wrap)
    - getNeighborCount(SetCell(g, FarCorner, 0), 0, 0, cols, rows, wrap)

CountIsMoore ==
  \A x \in 0 .. cols - 1, y \in 0 .. rows - 1 :
     getNeighborCount(prevGrid, x, y, cols, rows, call.wrapEdges)
       = LiveNeighbours(prevGrid, x, y, cols, rows, call.wrapEdges)

\* C2 as stated: the count is the number of live cells among the 8 Moore
\* neighbours and never includes the cell itself, for every grid with cols >= 1
\* and rows >= 1; on an N x N grid a live (N-1,N-1) is counted for (0,0) under
\* wrap and is not counted under the bounded policy.
C2_Original ==
  Stepped =>
    /\ CountIsMoore
    /\ \A x \in 0 .. cols - 1, y \in 0 .. rows - 1 : SelfExcluded(prevGrid, x, y, call.wrapEdges)
    /\ cols = rows => IF call.wrapEdges THEN CornerShare(prevGrid, TRUE) >= 1
                                        ELSE CornerShare(prevGrid, FALSE) = 0

\* C2 amended: the count is the number of the 8 Moore offsets whose cell is
\* live; it does not include the cell itself when wrap is off or cols >= 2 and
\* rows >= 2; on an N x N grid a live (N-1,N-1) is counted for (0,0) under wrap,
\* and under the bounded policy it is not counted unless N = 2.
C2_NeighbourCount ==
  Stepped =>
    /\ CountIsMoore
    /\ (~call.wrapEdges \/ (cols >= 2 /\ rows >= 2)) =>
         \A x \in 0 .. cols - 1, y \in 0 .. rows - 1 : SelfExcluded(prevGrid, x, y, call.wrapEdges)
    /\ cols = rows => IF call.wrapEdges THEN CornerShare(prevGrid, TRUE) >= 1
                                        ELSE cols # 2 => CornerShare(prevGrid, FALSE) = 0

\* A step under wrap on a 3 x 3 grid where (2,2) is live and is the only live
\* neighbour of (0,0).
C2_Witness ==
  /\ Stepped /\ call.wrapEdges
  /\ cols = 3 /\ rows = 3
  /\ prevGrid[FarCorner] = 1
  /\ getNeighborCount(prevGrid, 0, 0, cols, rows, TRUE) = 1
  /\ getNeighborCount(prevGrid, 0, 0, cols, rows, FALSE) = 0
  /\ prevGrid[0] = 1

\* C3: under conway a dead cell becomes alive exactly with 3 live neighbours,
\* and a live cell stays alive exactly with 2 or 3.
C3_ConwayRule ==
  (Stepped /\ call.rule = "conway") =>
    \A x \in 0 .. cols - 1, y \in 0 .. rows - 1 :
       LET i == y * cols + x
           n == LiveNeighbours(prevGrid, x, y, cols, rows, call.wrapEdges)
       IN /\ prevGrid[i] = 0 => (grid[i] = 1 <=> n = 3)
          /\ prevGrid[i] = 1 => (grid[i] = 1 <=> n \in {2, 3})

\* A conway step with a birth at 3, no birth at 2 and at 4, a survival at 2 or 3,
\* a death by isolation and a death by overcrowding.
C3_Witness ==
  /\ Stepped /\ call.rule = "conway"
  /\ LET N(i) == LiveNeighbours(prevGrid, i % cols, i \div cols, cols, rows, call.wrapEdges)
     IN /\ \E i \in DOMAIN grid : prevGrid[i] = 0 /\ N(i) = 3 /\ grid[i] = 1
        /\ \E i \in DOMAIN grid : prevGrid[i] = 0 /\ N(i) = 2 /\ grid[i] = 0
        /\ \E i \in DOMAIN grid : prevGrid[i] = 0 /\ N(i) >= 4 /\ grid[i] = 0
        /\ \E i \in DOMAIN grid : prevGrid[i] = 1 /\ N(i) \in {2, 3} /\ grid[i] = 1
        /\ \E i \in DOMAIN grid : prevGrid[i] = 1 /\ N(i) <= 1 /\ grid[i] = 0
        /\ \E i \in DOMAIN grid : prevGrid[i] = 1 /\ N(i) >= 4 /\ grid[i] = 0

\* C4: in every state the store reaches by step, brush, stamp, clear and
\* randomize, the grid has exactly cols*rows cells and every cell is 0 or 1.
C4_GridShape == IsGrid(grid, COLS, ROWS)

\* After a randomize, a step and an erasing stroke: a live cell is left, and an
\* erased cell still has the heat of a live one.
C4_Witness ==
  /\ call.op = "interactAt" /\ tool = "erase"
  /\ generation = 1
  /\ \E i \in DOMAIN grid : grid[i] = 1
  /\ \E i \in DOMAIN grid : grid[i] = 0 /\ heat[i] = 10
  /\ \E i \in DOMAIN grid : grid[i] = 0 /\ heat[i] = 9

\* C5: an all-dead grid stays all-dead after any number of consecutive steps,
\* under each of the three presets and both edge policies.
C5_EmptyGridFixpoint == (Observing /\ AllDead(snapshot)) => AllDead(grid)

\* MaxSteps steps of an all-dead grid, the last one under seeds with wrap.
C5_Witness ==
  /\ Observing /\ AllDead(snapshot)
  /\ steps = MaxSteps /\ Stepped
  /\ call.rule = "seeds" /\ call.wrapEdges
  /\ AllDead(grid)

\* C6: a blinker stamped at any anchor of the empty RunDim x RunDim grid with
\* wrap differs from the stamped grid after one conway step and equals it
\* after two.
C6_BlinkerPeriod2 ==
  (Observing /\ ~AllDead(snapshot)) =>
    /\ cols = RunDim /\ rows = RunDim
    /\ Cardinality({i \in DOMAIN snapshot : snapshot[i] = 1}) = 3
    /\ steps = 0 => (call.op = "stampPattern" /\ call.name = "blinker" /\ grid = snapshot)
    /\ steps = 1 => grid # snapshot
    /\ steps = 2 => grid = snapshot

\* Two steps after a blinker was stamped across the left edge of the grid.
C6_Witness ==
  /\ Observing /\ steps = 2 /\ Stepped
  /\ snapshot[0] = 1 /\ snapshot[1] = 1 /\ snapshot[cols - 1] = 1
  /\ grid = snapshot
  /\ prevGrid # grid

Brushed == call.op = "applyBrush"
Stamped == call.op = "stampPattern"

\* The cell of an offset from (x,y): under wrap the coordinates modulo
\* (cols, rows); under the bounded policy no cell when out of range.
InRange(x, y) == x \in 0 .. cols - 1 /\ y \in 0 .. rows - 1

TargetCells(x, y, offs, wrap) ==
  IF wrap
  THEN {((y + d[2]) % rows) * cols + ((x + d[1]) % cols) : d \in offs}
  ELSE {(y + d[2]) * cols + (x + d[1]) : d \in {e \in offs : InRange(x + e[1], y + e[2])}}

Square(size) ==
  LET radius == (size - 1) \div 2 IN (-radius .. radius) \X (-radius .. radius)

\* C7: applyBrush with the centre inside the grid and an odd size sets exactly
\* the cells of the square (wrapped modulo (cols, rows), or clipped cell by
\* cell) to `alive` and leaves every other cell as it was, for every grid size
\* and every odd size.
C7_BrushPaintsSquare ==
  Brushed =>
    /\ DOMAIN grid = DOMAIN prevGrid
    /\ \A i \in DOMAIN grid :
         grid[i] = IF i \in TargetCells(call.x, call.y, Square(call.size), call.wrapEdges)
                   THEN (IF call.alive THEN 1 ELSE 0)
                   ELSE prevGrid[i]

\* C8: stamping never clears a cell: every cell live before stampPattern is
\* live after it, in every stamp of any sequence of stamps.
C8_StampNeverClears ==
  Stamped =>
    /\ DOMAIN grid = DOMAIN prevGrid
    /\ \A i \in DOMAIN grid : prevGrid[i] = 1 => grid[i] = 1

\* A stamp over a grid with a live cell outside the pattern and a live cell
\* under it, which also sets a dead cell.
C8_Witness ==
  /\ Stamped
  /\ LET T == TargetCells(call.x, call.y,
                          {PATTERN_OFFSETS[call.name][k] : k \in DOMAIN PATTERN_OFFSETS[call.name]},
                          call.wrapEdges)
     IN /\ \E i \in DOMAIN grid : i \notin T /\ prevGrid[i] = 1 /\ grid[i] = 1
        /\ \E i \in DOMAIN grid : i \in T /\ prevGrid[i] = 1 /\ grid[i] = 1
        /\ \E i \in DOMAIN grid : i \in T /\ prevGrid[i] = 0 /\ grid[i] = 1

\* C9: stampPattern with the anchor inside the grid returns the input OR-ed
\* with exactly the cells of the pattern (wrapped modulo (cols, rows), or
\* skipped when out of range), for all four patterns and every grid size.
C9_StampIsOr ==
  Stamped =>
    /\ DOMAIN grid = DOMAIN prevGrid
    /\ \A i \in DOMAIN grid :
         grid[i] = IF i \in TargetCells(call.x, call.y,
                           {PATTERN_OFFSETS[call.name][k] : k \in DOMAIN PATTERN_OFFSETS[call.name]},
                           call.wrapEdges)
                   THEN 1
                   ELSE prevGrid[i]

\* C10: a cell whose heat is maxHeat and which is then dead in m consecutive
\* updateHeatMap calls with decay d has heat max(maxHeat - m*d, 0) after the
\* m-th call; its heat is never negative and never more than maxHeat, and stays
\* 0 once it is 0.
C10_HeatDecay ==
  \A i \in DOMAIN heat :
     deadRun[i] >= 0 =>
       /\ heat[i] = Max(call.maxHeat - deadRun[i] * call.decay, 0)
       /\ heat[i] >= 0
       /\ heat[i] <= call.maxHeat

\* One cell one call after it died, still warm; the other dead for three calls,
\* at 0 since the second.
C10_Witness ==
  /\ call.op = "updateHeatMap"
  /\ call.maxHeat = 3 /\ call.decay = 2
  /\ DOMAIN heat = 0 .. 1
  /\ deadRun[0] = 1 /\ heat[0] = 1
  /\ deadRun[1] = 3 /\ heat[1] = 0

\* C11: countBirthsAndDeaths on two binary grids of the same length counts
\* exactly the 0->1 cells as births and the 1->0 cells as deaths, so births +
\* deaths + the number of equal cells is cols*rows; the births and deaths the
\* store records in a step are these counts for the grid before and the grid
\* after the step.
Born == {i \in DOMAIN grid : grid[i] = 0 /\ grid'[i] = 1}
Died == {i \in DOMAIN grid : grid[i] = 1 /\ grid'[i] = 0}
Same == {i \in DOMAIN grid : grid[i] = grid'[i]}

\* A call of countBirthsAndDeaths, alone or in a step; a setter replaces no
\* buffer.
Diffed ==
  \/ call'.op = "countBirthsAndDeaths" /\ settings' = settings
  \/ generation' = generation + 1

C11_DiffCounts ==
  [][Diffed =>
       /\ DOMAIN grid' = DOMAIN grid
       /\ births' = Cardinality(Born)
       /\ deaths' = Cardinality(Died)
       /\ births' + deaths' + Cardinality(Same) = cols * rows]_vars

\* A step of the store in which a cell was born and a cell died.
C11_Witness ==
  /\ call.op = "step" /\ generation = 1
  /\ births > 0 /\ deaths > 0 /\ births + deaths <= COLS * ROWS

\* C12: a click toggles the cell: one interactAt(x, y) with brush size 1 leaves
\* a cell that was live dead and a cell that was dead alive, in every state of
\* the store.
C12_ClickToggles ==
  [][\A x \in 0 .. COLS - 1, y \in 0 .. ROWS - 1 :
        (brushSize = 1 /\ InteractAt(x, y)) =>
           grid'[indexOf(x, y, COLS)] = 1 - grid[indexOf(x, y, COLS)]]_vars

\* C13: no operation writes to a buffer it is given: after any sequence of
\* stepGrid, applyBrush, stampPattern, createHeatFromGrid and updateHeatMap
\* calls every buffer that was passed as an input holds the contents it had
\* when it was passed, and the result of a call is none of its inputs.
C13_InputsUntouched ==
  heap # NoHeap =>
    /\ \A p \in heap.seen : heap.buffers[p[1]] = p[2]
    /\ heap.result \notin heap.inputs

\* Three calls later: the grid the driver started with is still in its buffer
\* although the driver's grid differs from it, and the heat was replaced too.
C13_Witness ==
  /\ heap # NoHeap
  /\ Len(heap.buffers) = MaxHeap
  /\ <<1, heap.buffers[1]>> \in heap.seen
  /\ heap.buffers[heap.grid] # heap.buffers[1]
  /\ heap.heat # 2
  /\ heap.buffers[heap.heat] # heap.buffers[2]
  /\ call.op = "updateHeatMap"

\* C14: updateHeatMap(previousHeat, currentGrid, ...) and
\* countBirthsAndDeaths(previous, current) on two buffers of different lengths
\* end in a DimensionMismatch error and return no result.
HeatMismatch == call'.op = "updateHeatMap" /\ call' # call /\ DOMAIN heat # DOMAIN grid'
DiffMismatch == call'.op = "countBirthsAndDeaths" /\ DOMAIN grid # DOMAIN grid'

C14_MismatchIsError ==
  [][(HeatMismatch \/ DiffMismatch) => call'.outcome = "DimensionMismatch"]_vars

\* C15: createHeatFromGrid gives every live cell the heat maxHeat and every
\* dead cell the heat 0, and updateHeatMap sets every live cell to maxHeat, for
\* every positive integer maxHeat.
C15_LiveCellsAtMaxHeat ==
  /\ call.op = "createHeatFromGrid" =>
        \A i \in DOMAIN grid : heat[i] = IF grid[i] = 1 THEN call.maxHeat ELSE 0
  /\ call.op = "updateHeatMap" =>
        \A i \in DOMAIN grid : grid[i] = 1 => heat[i] = call.maxHeat

\* C16: in every state of the store reached by step, clear, randomize,
\* interactAt and placePatternInCenter, the heat buffer is as long as the grid,
\* every heat is in 0..10, and every live cell has heat 10.
C16_StoreHeat ==
  /\ DOMAIN heat = DOMAIN grid
  /\ \A i \in DOMAIN heat : heat[i] \in 0 .. 10
  /\ \A i \in DOMAIN grid : grid[i] = 1 => heat[i] = 10

\* After a step: a cell born in it at 10 and a cell that died in it at 9.
C16_Witness ==
  /\ call.op = "step" /\ births > 0 /\ deaths > 0
  /\ \E i \in DOMAIN grid : grid[i] = 1 /\ heat[i] = 10
  /\ \E i \in DOMAIN grid : grid[i] = 0 /\ heat[i] = 9

\* C17: step adds exactly 1 to generation; clear and randomize set generation,
\* births and deaths to 0; interactAt, placePatternInCenter and the setters
\* leave the three as they are.  So generation is the number of steps since
\* the last clear or randomize, or since the start.
\* A transition is told by the handler name it leaves in `call`; the setters
\* leave none and are told by the setting they change.
SettingChanged == settings' # settings \/ (running' # running /\ call'.op # "clear")

Handled(op) == call'.op = op /\ ~SettingChanged /\ vars' # vars

C17_GenerationCounts ==
  [][/\ Handled("step") => generation' = generation + 1
     /\ (Handled("clear") \/ Handled("randomize")) =>
           generation' = 0 /\ births' = 0 /\ deaths' = 0
     /\ (Handled("interactAt") \/ Handled("placePatternInCenter")) => counters' = counters
     /\ SettingChanged => counters' = counters]_vars

\* An erasing click after a step in which cells were born and died: the three
\* counters are those of the step.
C17_Witness ==
  /\ call.op = "interactAt" /\ tool = "erase"
  /\ generation = 1 /\ births > 0 /\ deaths > 0
  /\ \A i \in DOMAIN grid : grid[i] = 0

\* C18: while running is false the animation loop applies no step to the
\* store: a frame requested while running was true does not advance the grid
\* or the generation after the pause, whatever the order of frames, user
\* actions and effect clean-ups; and at most one frame is pending at any time.
LoopStepped == raf' # raf /\ generation' = generation + 1

C18_NoStepAfterPause ==
  /\ [](raf # NoRaf => Cardinality(raf.pending) <= 1)
  /\ [][LoopStepped => running]_vars

\* C19: a pointer move invokes onInteractCell only during a drag (after a
\* primary pointer-down made while dragEnabled was true, before the next up,
\* cancel or leave), never for the cell of the invocation before it in the
\* same press, and never while the stamp tool is selected, whatever the order
\* of pointer events and tool changes.
MoveInvoked == canvas' # canvas /\ canvas'.invokedBy = "move"

C19_MovesPaintOnlyInDrag ==
  [][MoveInvoked =>
       /\ canvas.pressed /\ canvas.drag
       /\ canvas'.cell # canvas.cell
       /\ tool # "stamp"]_vars

====
